---------------------------- MODULE Spec2Model ----------------------------
(***************************************************************************)
(* A model of the Orange <-> AutoGluon add-on:                             *)
(*   - the format adapter (convert_to_autogluon_format,                    *)
(*     convert_from_autogluon_forecast),                                   *)
(*   - the AutoGluonWrapper (fit, predict, get_model, get_fitted_values),  *)
(*   - the three widgets (forecast, leaderboard, feature importance).      *)
(*                                                                         *)
(* Python values are records.  None is the record None.  The result of a  *)
(* call is Ok(v) when it returns v and Raise(e) when it raises e.  The     *)
(* external libraries (pandas, Orange, AutoGluon) are modelled by what the *)
(* calls made here do: where the answer of AutoGluon is not determined by  *)
(* this code (a constructor or a training or a prediction may raise), the  *)
(* answer is an input of the operation, chosen by the environment.         *)
(***************************************************************************)
EXTENDS Integers, Sequences, FiniteSets, TLC

VARIABLES
    a_op,      \* adapter: the conversion last called ("idle" before any)
    a_in,      \* adapter: its argument(s)
    a_out,     \* adapter: its result, Ok(..) or Raise(..)
    wrapper,   \* an AutoGluonWrapper object: prediction_length, kwargs, predictor, data
    w_call,    \* wrapper: the last method call, its arguments and its result
    w_fitted,  \* wrapper: the series of the last fit if it succeeded and no fit came after, else None
    w_fit_called, \* wrapper: fit has been called at least once
    fw,        \* the OWAutoGluonForecast widget: its fields, settings, messages and output ports
    fw_event,  \* forecast widget: the handler that ran last, its argument and whether it caught a failure
    lb,        \* the OWAutoGluonLeaderboard widget
    lb_event,  \* leaderboard widget: the handler that ran last and whether it caught a failure
    fi,        \* the OWAutoGluonFeatureImportance widget
    fi_event   \* feature importance widget: the handler that ran last and whether it caught a failure

vars == <<a_op, a_in, a_out, wrapper, w_call, w_fitted, w_fit_called, fw, fw_event,
          lb, lb_event, fi, fi_event>>

adapterVars == <<a_op, a_in, a_out>>
wrapperVars == <<wrapper, w_call, w_fitted, w_fit_called>>
forecastVars == <<fw, fw_event>>
leaderboardVars == <<lb, lb_event>>
importanceVars == <<fi, fi_event>>

----------------------------------------------------------------------------
(* Bounds of the model *)

MaxLen == 2          \* rows of a series given to the adapter
MaxTick == 2         \* largest timestamp, in ticks
MaxVal == 1          \* largest target value
MaxCols == 3         \* value columns of a forecast frame
NumSeries == 2       \* distinct series contents offered to the wrapper and the widgets

(* Timestamps are floats of epoch seconds in Orange and nanosecond          *)
(* datetimes in pandas.  A timestamp is modelled as a whole number of      *)
(* ticks, TicksPerSecond ticks to the second (10**9 in pandas).            *)
TicksPerSecond == 2

----------------------------------------------------------------------------
(* Python values *)

None == [kind |-> "None"]
Ok(v) == [kind |-> "ok", value |-> v]
Raise(e) == [kind |-> "raise", error |-> e]

IsOk(r) == r.kind = "ok"
IsRaise(r) == r.kind = "raise"

RECURSIVE SelectNames(_, _)
(* The subsequence of the names of s that are not in the set drop. *)
SelectNames(s, drop) ==
    IF s = <<>> THEN <<>>
    ELSE IF Head(s) \in drop THEN SelectNames(Tail(s), drop)
         ELSE <<Head(s)>> \o SelectNames(Tail(s), drop)

Range(s) == {s[i] : i \in DOMAIN s}

----------------------------------------------------------------------------
(* Orange Timeseries.  time_variable and class_var say whether the         *)
(* attribute is set; time_values are the timestamps (ticks), Y the target  *)
(* column; attrs and X are the attribute columns of the domain (used by    *)
(* the series the adapter builds).                                         *)

Timeseries(tv, cv, times, y) ==
    [time_variable |-> tv, class_var |-> cv, time_values |-> times, Y |-> y,
     attrs |-> <<>>, X |-> <<>>]

Ticks == (0 - 1) .. MaxTick
Vals == 0 .. MaxVal

(* Every series the adapter is tried on. *)
AllSeries ==
    {Timeseries(tv, cv, rows.t, rows.y) :
        tv \in BOOLEAN, cv \in BOOLEAN,
        rows \in UNION {{[t |-> ts, y |-> ys] : ts \in [1..n -> Ticks], ys \in [1..n -> Vals]}
                          : n \in 0..MaxLen}}

----------------------------------------------------------------------------
(* pandas frames.  index: the names of the index levels (<<>> for the      *)
(* default RangeIndex); columns: the column names in order; n: the number  *)
(* of rows; data: the values of each index level and column.               *)

Frame(index, columns, n, data) ==
    [index |-> index, columns |-> columns, n |-> n, data |-> data]

(* pd.to_datetime(x, unit='s') and its inverse, astype(int64) // 10**9 *)
to_datetime(t) == [datetime |-> t]
to_epoch_seconds(d) == (d.datetime \div TicksPerSecond) * TicksPerSecond

(* DataFrame.reset_index(): the index levels become the leading columns;   *)
(* a default index becomes a column named "index".                         *)
reset_index(f) ==
    IF f.index # <<>>
    THEN Frame(<<>>, f.index \o f.columns, f.n, f.data)
    ELSE Frame(<<>>, <<"index">> \o f.columns, f.n,
               [c \in (DOMAIN f.data) \cup {"index"} |->
                   IF c = "index" THEN [i \in 1..f.n |-> i - 1] ELSE f.data[c]])

(* The two ValueErrors of convert_to_autogluon_format *)
MissingTimeAttribute == "Time variable is not set in the Timeseries object"
MissingTargetAttribute == "Target variable is not set (class variable)"

(* The frame convert_to_autogluon_format builds (lines 32-50). *)
to_panel_frame(data) ==
    LET n == Len(data.time_values)
        df == [timestamp |-> [i \in 1..n |-> to_datetime(data.time_values[i])],
               target |-> data.Y,
               item_id |-> [i \in 1..n |-> "item_1"]]
    IN  Frame(<<"item_id", "timestamp">>, <<"target">>, n, df)

(* A faulty variant: the target attribute is looked at before the time attribute. *)
convert_target_checked_first(data) ==
    IF ~data.class_var THEN Raise(MissingTargetAttribute)
    ELSE IF ~data.time_variable THEN Raise(MissingTimeAttribute)
    ELSE Ok(to_panel_frame(data))

(* convert_to_autogluon_format *)
convert_to_autogluon_format(data) ==
    IF ~data.time_variable
    THEN Raise(MissingTimeAttribute)
    ELSE IF ~data.class_var
    THEN Raise(MissingTargetAttribute)
    ELSE Ok(to_panel_frame(data))

(* Timeseries.from_numpy(domain, X, metas=metas): Orange refuses a matrix  *)
(* whose number of columns is not the number of attributes of the domain.  *)
from_numpy(attrs, X, metas) ==
    IF Len(X) # Len(attrs)
    THEN Raise("Invalid number of variable columns")
    ELSE Ok([time_variable |-> TRUE, class_var |-> FALSE,
             time_values |-> metas, Y |-> <<>>, attrs |-> attrs, X |-> X])

(* convert_from_autogluon_forecast *)
convert_from_autogluon_forecast(forecast, original_data) ==
    LET forecast_df == reset_index(forecast)
        attrs == SelectNames(forecast.columns, {"timestamp", "item_id"})
        xcols == SubSeq(forecast.columns, 3, Len(forecast.columns))
    IN  IF original_data.time_values = <<>>
        THEN Raise("IndexError")          \* time_values[-1] of an empty series
        ELSE IF "timestamp" \notin Range(forecast_df.columns)
        THEN Raise("KeyError")            \* forecast_df['timestamp']
        ELSE LET X == [j \in 1..Len(xcols) |-> forecast_df.data[xcols[j]]]
                 timestamps == [i \in 1..forecast_df.n |->
                                   to_epoch_seconds(forecast_df.data["timestamp"][i])]
             IN  from_numpy(attrs, X, timestamps)

----------------------------------------------------------------------------
(* The adapter on its own: each conversion applied to every input. *)

(* The columns of an AutoGluon forecast: the mean and the default quantile levels. *)
ValueColumns == <<"mean", "0.1", "0.2", "0.3", "0.4", "0.5", "0.6", "0.7", "0.8", "0.9">>

(* The value of column c of a forecast at row i: distinct per column. *)
ColumnValue(c, i) ==
    LET j == CHOOSE k \in DOMAIN ValueColumns : ValueColumns[k] = c
    IN  100 * j + i

(* A forecast of k value columns and n rows, as AutoGluon returns it       *)
(* (item_id and timestamp in the index) or as a flat DataFrame (item_id    *)
(* and timestamp the two leading columns).                                 *)
Forecast(indexed, k, n, t0) ==
    LET cols == SubSeq(ValueColumns, 1, k)
        data == [c \in {"item_id", "timestamp"} \cup Range(cols) |->
                    IF c = "item_id" THEN [i \in 1..n |-> "item_1"]
                    ELSE IF c = "timestamp" THEN [i \in 1..n |-> to_datetime(t0 + i)]
                    ELSE [i \in 1..n |-> ColumnValue(c, i)]]
    IN  IF indexed THEN Frame(<<"item_id", "timestamp">>, cols, n, data)
        ELSE Frame(<<>>, <<"item_id", "timestamp">> \o cols, n, data)

AllForecasts ==
    {Forecast(ix, k, n, t0) : ix \in BOOLEAN, k \in 0..MaxCols, n \in 1..MaxLen, t0 \in Ticks}

(* The series from_panel is given as original_data have been through       *)
(* convert_to_autogluon_format (lines 156-159, 202-210); only their last   *)
(* timestamp is read, so short ones are enough.                            *)
Originals == {s \in AllSeries : s.time_variable /\ s.class_var /\ Len(s.time_values) <= 1}

(* The inputs of one adapter run: a series alone, or a forecast with the   *)
(* original series.                                                        *)
AdapterInputs ==
    {[series |-> s, forecast |-> None] : s \in AllSeries}
    \cup {[series |-> s, forecast |-> f] : s \in Originals, f \in AllForecasts}

IdleForecast ==
    /\ fw = None
    /\ fw_event = None

IdleLeaderboard ==
    /\ lb = None
    /\ lb_event = None

IdleImportance ==
    /\ fi = None
    /\ fi_event = None

IdleWrapper ==
    /\ wrapper = None
    /\ w_call = None
    /\ w_fitted = None
    /\ w_fit_called = FALSE

AdapterInit ==
    /\ a_op = "idle"
    /\ a_in \in AdapterInputs
    /\ a_out = None
    /\ IdleWrapper
    /\ IdleForecast
    /\ IdleLeaderboard
    /\ IdleImportance

ToPanel ==
    /\ a_op = "idle"
    /\ a_in.forecast = None
    /\ a_op' = "to_panel"
    /\ a_out' = convert_to_autogluon_format(a_in.series)
    /\ UNCHANGED <<a_in, wrapperVars, forecastVars, leaderboardVars, importanceVars>>

FromPanel ==
    /\ a_op = "idle"
    /\ a_in.forecast # None
    /\ a_op' = "from_panel"
    /\ a_out' = convert_from_autogluon_forecast(a_in.forecast, a_in.series)
    /\ UNCHANGED <<a_in, wrapperVars, forecastVars, leaderboardVars, importanceVars>>

(* from_panel(to_panel(series), series) *)
round_trip(s) ==
    LET p == convert_to_autogluon_format(s)
    IN  IF IsRaise(p) THEN p ELSE convert_from_autogluon_forecast(p.value, s)

RoundTrip ==
    /\ a_op = "idle"
    /\ a_in.forecast = None
    /\ a_op' = "round_trip"
    /\ a_out' = round_trip(a_in.series)
    /\ UNCHANGED <<a_in, wrapperVars, forecastVars, leaderboardVars, importanceVars>>

AdapterNext ==
    \/ ToPanel
    \/ FromPanel
    \/ RoundTrip

SpecAdapter == AdapterInit /\ [][AdapterNext]_vars

----------------------------------------------------------------------------
(* AutoGluon's TimeSeriesPredictor, as far as the wrapper uses it.  Whether *)
(* the constructor, the training and a prediction raise is the library's   *)
(* answer, an input of the call.                                           *)

ExternalLibraryFailure(what) == "ExternalLibraryFailure: " \o what
ExternalNotFound == "ExternalLibraryFailure: model not found"

(* The sub-models a training can leave in the predictor's registry. *)
ModelNames == {"Naive", "WeightedEnsemble"}
RequestedNames == ModelNames \cup {"nonexistent"}

(* TimeSeriesPredictor(prediction_length=..., **kwargs): a predictor that  *)
(* has not been trained.                                                   *)
TimeSeriesPredictor(prediction_length, kwargs) ==
    [kind |-> "TimeSeriesPredictor", prediction_length |-> prediction_length,
     kwargs |-> kwargs, trained |-> FALSE, train_data |-> None, models |-> {}]

(* The library's answers to fit's two calls: the constructor (ctor) and    *)
(* the training (fit), which leaves the sub-models it trained.             *)
FitAnswers ==
    {[ctor |-> FALSE, fit |-> FALSE, models |-> {}],
     [ctor |-> TRUE, fit |-> FALSE, models |-> {}]}
    \cup {[ctor |-> TRUE, fit |-> TRUE, models |-> m] : m \in (SUBSET ModelNames) \ {{}}}

(* The library's answer to predictor.predict: TRUE when it returns. *)
PredictAnswers == {[predict |-> TRUE], [predict |-> FALSE]}
NoAnswer == [none |-> TRUE]

(* predictor.predict(ag_data): an untrained predictor, or one given no     *)
(* rows, raises; otherwise the forecast covers prediction_length steps     *)
(* after the last timestamp, one column for the mean and one per quantile. *)
predictor_predict(predictor, ag_data, ext) ==
    IF ~predictor.trained \/ ag_data.n = 0 \/ ~ext.predict
    THEN Raise(ExternalLibraryFailure("predict"))
    ELSE Ok(Forecast(TRUE, Len(ValueColumns), predictor.prediction_length,
                     ag_data.data["timestamp"][ag_data.n].datetime))

(* predictor.get_model(model_name): the lookup in the registry. *)
predictor_get_model(predictor, model_name) ==
    IF model_name \in predictor.models
    THEN Ok([kind |-> "model", name |-> model_name])
    ELSE Raise(ExternalNotFound)

Called(fn, arg) == [fn |-> fn, arg |-> arg]

----------------------------------------------------------------------------
(* AutoGluonWrapper.  Each method is an operator from the object, the      *)
(* arguments and the library's answers to: the object afterwards (self),   *)
(* the result, and the calls made into the library (calls).                *)

NotFitted == "Model must be fitted first"
NoData == "No data available for prediction"

Outcome(self, result, calls) == [self |-> self, result |-> result, calls |-> calls]

(* __init__ *)
AutoGluonWrapper(prediction_length, kwargs) ==
    [kind |-> "AutoGluonWrapper", prediction_length |-> prediction_length,
     kwargs |-> kwargs, predictor |-> None, data |-> None]

(* A faulty variant of fit: the series is not stored in self.data. *)
fit_without_storing_data(self, data, ext) ==
    LET ag_data == convert_to_autogluon_format(data)
        created == [self EXCEPT
                       !.predictor = TimeSeriesPredictor(self.prediction_length, self.kwargs)]
        trained == [created EXCEPT
                       !.predictor.trained = TRUE,
                       !.predictor.train_data = ag_data.value,
                       !.predictor.models = ext.models]
    IN  IF IsRaise(ag_data) THEN Outcome(self, ag_data, <<>>)
        ELSE IF ~ext.ctor
        THEN Outcome(self, Raise(ExternalLibraryFailure("TimeSeriesPredictor")),
                     <<Called("TimeSeriesPredictor", None)>>)
        ELSE IF ~ext.fit
        THEN Outcome(created, Raise(ExternalLibraryFailure("fit")),
                     <<Called("TimeSeriesPredictor", None), Called("fit", ag_data.value)>>)
        ELSE Outcome(trained, Ok(trained),
                     <<Called("TimeSeriesPredictor", None), Called("fit", ag_data.value)>>)

(* A faulty variant of fit: the series is stored only after the training. *)
fit_storing_data_last(self, data, ext) ==
    LET ag_data == convert_to_autogluon_format(data)
        created == [self EXCEPT
                       !.predictor = TimeSeriesPredictor(self.prediction_length, self.kwargs)]
        trained == [created EXCEPT
                       !.data = data,
                       !.predictor.trained = TRUE,
                       !.predictor.train_data = ag_data.value,
                       !.predictor.models = ext.models]
    IN  IF IsRaise(ag_data) THEN Outcome(self, ag_data, <<>>)
        ELSE IF ~ext.ctor
        THEN Outcome(self, Raise(ExternalLibraryFailure("TimeSeriesPredictor")),
                     <<Called("TimeSeriesPredictor", None)>>)
        ELSE IF ~ext.fit
        THEN Outcome(created, Raise(ExternalLibraryFailure("fit")),
                     <<Called("TimeSeriesPredictor", None), Called("fit", ag_data.value)>>)
        ELSE Outcome(trained, Ok(trained),
                     <<Called("TimeSeriesPredictor", None), Called("fit", ag_data.value)>>)

(* A faulty variant of fit: the series is stored before it is converted. *)
fit_storing_before_conversion(self, data, ext) ==
    LET ag_data == convert_to_autogluon_format(data)
        stored == [self EXCEPT !.data = data]
        created == [stored EXCEPT
                       !.predictor = TimeSeriesPredictor(self.prediction_length, self.kwargs)]
        trained == [created EXCEPT
                       !.predictor.trained = TRUE,
                       !.predictor.train_data = ag_data.value,
                       !.predictor.models = ext.models]
    IN  IF IsRaise(ag_data) THEN Outcome(stored, ag_data, <<>>)
        ELSE IF ~ext.ctor
        THEN Outcome(stored, Raise(ExternalLibraryFailure("TimeSeriesPredictor")),
                     <<Called("TimeSeriesPredictor", None)>>)
        ELSE IF ~ext.fit
        THEN Outcome(created, Raise(ExternalLibraryFailure("fit")),
                     <<Called("TimeSeriesPredictor", None), Called("fit", ag_data.value)>>)
        ELSE Outcome(trained, Ok(trained),
                     <<Called("TimeSeriesPredictor", None), Called("fit", ag_data.value)>>)

(* fit *)
fit(self, data, ext) ==
    LET ag_data == convert_to_autogluon_format(data)
        stored == [self EXCEPT !.data = data]
        created == [stored EXCEPT
                       !.predictor = TimeSeriesPredictor(self.prediction_length, self.kwargs)]
        trained == [created EXCEPT
                       !.predictor.trained = TRUE,
                       !.predictor.train_data = ag_data.value,
                       !.predictor.models = ext.models]
    IN  IF IsRaise(ag_data) THEN Outcome(self, ag_data, <<>>)
        ELSE IF ~ext.ctor
        THEN Outcome(stored, Raise(ExternalLibraryFailure("TimeSeriesPredictor")),
                     <<Called("TimeSeriesPredictor", None)>>)
        ELSE IF ~ext.fit
        THEN Outcome(created, Raise(ExternalLibraryFailure("fit")),
                     <<Called("TimeSeriesPredictor", None), Called("fit", ag_data.value)>>)
        ELSE Outcome(trained, Ok(trained),
                     <<Called("TimeSeriesPredictor", None), Called("fit", ag_data.value)>>)

(* The common tail of predict and get_fitted_values (lines 156-159, 202-210) *)
forecast_of(self, data_to_use, ext) ==
    LET ag_data == convert_to_autogluon_format(data_to_use)
        predictions == predictor_predict(self.predictor, ag_data.value, ext)
    IN  IF IsRaise(ag_data) THEN Outcome(self, ag_data, <<>>)
        ELSE IF IsRaise(predictions)
        THEN Outcome(self, predictions, <<Called("predict", ag_data.value)>>)
        ELSE Outcome(self, convert_from_autogluon_forecast(predictions.value, data_to_use),
                     <<Called("predict", ag_data.value)>>)

(* predict *)
predict(self, data, ext) ==
    IF self.predictor = None THEN Outcome(self, Raise(NotFitted), <<>>)
    ELSE IF data = None
    THEN IF self.data = None THEN Outcome(self, Raise(NoData), <<>>)
         ELSE forecast_of(self, self.data, ext)
    ELSE forecast_of(self, data, ext)

(* A faulty variant of get_model: a name the registry does not know gives None. *)
get_model_defaulting(self, model_name) ==
    IF self.predictor = None THEN Outcome(self, Ok(None), <<>>)
    ELSE IF model_name \notin self.predictor.models
    THEN Outcome(self, Ok(None), <<Called("get_model", model_name)>>)
    ELSE Outcome(self, predictor_get_model(self.predictor, model_name),
                 <<Called("get_model", model_name)>>)

(* get_model *)
get_model(self, model_name) ==
    IF self.predictor = None THEN Outcome(self, Ok(None), <<>>)
    ELSE Outcome(self, predictor_get_model(self.predictor, model_name),
                 <<Called("get_model", model_name)>>)

(* get_fitted_values *)
get_fitted_values(self, data, ext) ==
    IF self.predictor = None THEN Outcome(self, Ok(None), <<>>)
    ELSE LET d == IF data = None THEN self.data ELSE data
         IN  IF d = None THEN Outcome(self, Ok(None), <<>>)
             ELSE forecast_of(self, d, ext)

----------------------------------------------------------------------------
(* One wrapper, called in any order with any arguments. *)

(* The series offered to the wrapper: with and without each attribute; the *)
(* k-th content has 5k rows one second apart, the even ones starting       *)
(* between two whole seconds.                                              *)
SeriesOf(tv, cv, k) ==
    Timeseries(tv, cv,
               [i \in 1..(5 * k) |-> (i - 1) * TicksPerSecond + (k - 1)],
               [i \in 1..(5 * k) |-> i + k])

WrapperSeries == {SeriesOf(tv, cv, k) : tv \in BOOLEAN, cv \in BOOLEAN, k \in 1..NumSeries}

(* kwargs of a wrapper made with none *)
NoKwargs == [none |-> TRUE]

IdleAdapter ==
    /\ a_op = "idle"
    /\ a_in = None
    /\ a_out = None

WrapperInit ==
    /\ wrapper = AutoGluonWrapper(1, NoKwargs)
    /\ w_call = None
    /\ w_fitted = None
    /\ w_fit_called = FALSE
    /\ IdleAdapter
    /\ IdleForecast
    /\ IdleLeaderboard
    /\ IdleImportance

Call(op, arg, ext, out) ==
    [op |-> op, arg |-> arg, ext |-> ext, before |-> wrapper,
     result |-> out.result, calls |-> out.calls]

Fit(data, ext) ==
    LET out == fit(wrapper, data, ext)
    IN  /\ wrapper' = out.self
        /\ w_call' = Call("fit", data, ext, out)
        /\ w_fitted' = IF IsOk(out.result) THEN data ELSE None
        /\ w_fit_called' = TRUE
        /\ UNCHANGED <<adapterVars, forecastVars, leaderboardVars, importanceVars>>

Predict(data, ext) ==
    LET out == predict(wrapper, data, ext)
    IN  /\ wrapper' = out.self
        /\ w_call' = Call("predict", data, ext, out)
        /\ UNCHANGED <<w_fitted, w_fit_called, adapterVars, forecastVars, leaderboardVars, importanceVars>>

GetFittedValues(data, ext) ==
    LET out == get_fitted_values(wrapper, data, ext)
    IN  /\ wrapper' = out.self
        /\ w_call' = Call("get_fitted_values", data, ext, out)
        /\ UNCHANGED <<w_fitted, w_fit_called, adapterVars, forecastVars, leaderboardVars, importanceVars>>

GetModel(model_name) ==
    LET out == get_model(wrapper, model_name)
    IN  /\ wrapper' = out.self
        /\ w_call' = Call("get_model", [name |-> model_name], NoAnswer, out)
        /\ UNCHANGED <<w_fitted, w_fit_called, adapterVars, forecastVars, leaderboardVars, importanceVars>>

WrapperNext ==
    \/ \E data \in WrapperSeries, ext \in FitAnswers : Fit(data, ext)
    \/ \E data \in WrapperSeries \cup {None}, ext \in PredictAnswers : Predict(data, ext)
    \/ \E data \in WrapperSeries \cup {None}, ext \in PredictAnswers : GetFittedValues(data, ext)
    \/ \E model_name \in RequestedNames : GetModel(model_name)

SpecWrapper == WrapperInit /\ [][WrapperNext]_vars

----------------------------------------------------------------------------
(* OWAutoGluonForecast.  The widget is a record of its fields (data,       *)
(* predictor), its settings, its active messages (Error, Warning: sets of  *)
(* message names) and the value last sent on each output port (Outputs;    *)
(* Unsent before any send).                                                *)

Unsent == [kind |-> "unsent"]

(* Values the controls offer: the default of each setting and, for all but *)
(* the time limit (same callback, same way into the wrapper), one other.   *)
PredictionLengths == {24, 1}
EvalMetrics == {"MASE", "RMSE"}
Presets == {"medium_quality", "fast_training"}
TimeLimits == {600}

SettingValues ==
    [prediction_length |-> PredictionLengths, eval_metric |-> EvalMetrics,
     preset |-> Presets, time_limit |-> TimeLimits]

(* The library's answers to the calls of one apply or commit; a call that  *)
(* is not reached (after an earlier one raised) has no answer to vary.     *)
ApplyAnswers ==
    {a \in [fit : {f \in FitAnswers : f.fit => f.models = ModelNames},
            predict : PredictAnswers, fitted : PredictAnswers] :
        /\ ~a.fit.fit => ~a.predict.predict
        /\ ~a.predict.predict => ~a.fitted.predict}

(* __init__ and the settings' defaults (lines 33-37, 42-45) *)
OWAutoGluonForecast ==
    [kind |-> "OWAutoGluonForecast", data |-> None, predictor |-> None,
     prediction_length |-> 24, eval_metric |-> "MASE", preset |-> "medium_quality",
     time_limit |-> 600, autocommit |-> TRUE,
     Error |-> {}, Warning |-> {},
     Outputs |-> [forecast |-> Unsent, predictor |-> Unsent, fitted_values |-> Unsent]]

(* The keyword arguments apply and commit give the wrapper (lines 115-121) *)
wrapper_kwargs(self) ==
    [eval_metric |-> self.eval_metric, path |-> "autogluon-timeseries-model",
     presets |-> self.preset, time_limit |-> self.time_limit]

send_none(self) ==
    [self EXCEPT !.Outputs = [forecast |-> None, predictor |-> None, fitted_values |-> None]]

(* The try block of apply and of commit (lines 113-139, 147-174): both end *)
(* with the three results sent, or with fitting_failed and None on every   *)
(* port.  caught: an exception reached the except clause.                  *)
fit_and_send(self, ext) ==
    LET made == AutoGluonWrapper(self.prediction_length, wrapper_kwargs(self))
        fitted == fit(made, self.data, ext.fit)
        held == [self EXCEPT !.predictor = fitted.self]
        forecast == predict(fitted.self, self.data, ext.predict)
        fitted_values == get_fitted_values(fitted.self, self.data, ext.fitted)
        failed == [send_none(held) EXCEPT !.Error = @ \cup {"fitting_failed"}]
    IN  IF IsRaise(fitted.result) \/ IsRaise(forecast.result) \/ IsRaise(fitted_values.result)
        THEN [self |-> failed, caught |-> TRUE]
        ELSE [self |-> [held EXCEPT !.Outputs = [forecast |-> forecast.result.value,
                                                  predictor |-> fitted.self,
                                                  fitted_values |-> fitted_values.result.value]],
              caught |-> FALSE]

(* apply *)
apply(self, ext) ==
    LET cleared == [self EXCEPT !.Error = {}]
    IN  IF cleared.data = None
        THEN [self |-> send_none(cleared), caught |-> FALSE]
        ELSE fit_and_send(cleared, ext)

(* commit *)
commit(self, ext) ==
    IF self.data = None
    THEN [self |-> [self EXCEPT !.Outputs.forecast = None], caught |-> FALSE]
    ELSE fit_and_send(self, ext)

(* set_data up to its call of apply (lines 83-99) *)
check_data(self, data) ==
    LET cleared == [self EXCEPT !.Error = {}, !.Warning = {}, !.data = None]
    IN  IF data = None THEN cleared
        ELSE IF ~data.time_variable
        THEN [cleared EXCEPT !.Error = {"no_time_variable"}]
        ELSE IF ~data.class_var
        THEN [cleared EXCEPT !.Error = {"no_target"}]
        ELSE IF Len(data.time_values) < 10
        THEN [cleared EXCEPT !.data = data, !.Warning = {"data_size"}]
        ELSE [cleared EXCEPT !.data = data]

(* set_data *)
set_data(self, data, ext) ==
    LET checked == check_data(self, data)
        applied == apply(checked, ext)
    IN  [self |-> applied.self, caught |-> applied.caught \/ checked.Error # {}]

ForecastInit ==
    /\ fw = OWAutoGluonForecast
    /\ fw_event = None
    /\ IdleAdapter
    /\ IdleWrapper
    /\ IdleLeaderboard
    /\ IdleImportance

(* The input signal "Time series" *)
SetData(data, ext) ==
    LET done == set_data(fw, data, ext)
    IN  /\ fw' = done.self
        /\ fw_event' = [handler |-> "set_data", caught |-> done.caught, ran_apply |-> TRUE,
                        arg |-> data]
        /\ UNCHANGED <<adapterVars, wrapperVars, leaderboardVars, importanceVars>>

(* A control changes a setting and calls its callback, apply.deferred      *)
(* (lines 53-77).  With auto-commit on the host runs apply at once; with   *)
(* it off the host decides (now) whether apply runs or waits.              *)
SettingChanged(name, value, ext, now) ==
    LET set == [fw EXCEPT ![name] = value]
        done == IF now THEN apply(set, ext) ELSE [self |-> set, caught |-> FALSE]
    IN  /\ fw[name] # value
        /\ fw.autocommit => now
        /\ fw' = done.self
        /\ fw_event' = [handler |-> "setting", caught |-> done.caught, ran_apply |-> now,
                        arg |-> None]
        /\ UNCHANGED <<adapterVars, wrapperVars, leaderboardVars, importanceVars>>

(* The auto-commit checkbox (line 79) *)
ToggleAutocommit ==
    /\ fw' = [fw EXCEPT !.autocommit = ~@]
    /\ fw_event' = [handler |-> "autocommit", caught |-> FALSE, ran_apply |-> FALSE,
                    arg |-> None]
    /\ UNCHANGED <<adapterVars, wrapperVars, leaderboardVars, importanceVars>>

(* The Apply button, which gui.auto_commit binds to commit (line 79) *)
Commit(ext) ==
    LET done == commit(fw, ext)
    IN  /\ ~fw.autocommit
        /\ fw' = done.self
        /\ fw_event' = [handler |-> "commit", caught |-> done.caught, ran_apply |-> FALSE,
                        arg |-> None]
        /\ UNCHANGED <<adapterVars, wrapperVars, leaderboardVars, importanceVars>>

ForecastNext ==
    \/ \E data \in WrapperSeries \cup {None}, ext \in ApplyAnswers : SetData(data, ext)
    \/ \E name \in DOMAIN SettingValues, ext \in ApplyAnswers, now \in BOOLEAN :
          \E value \in SettingValues[name] : SettingChanged(name, value, ext, now)
    \/ ToggleAutocommit
    \/ \E ext \in ApplyAnswers : Commit(ext)

SpecForecast == ForecastInit /\ [][ForecastNext]_vars

----------------------------------------------------------------------------
(* The objects the Predictor inputs of the leaderboard and the feature      *)
(* importance widgets can be given (the inputs are typed object): None, an *)
(* object that is no wrapper, a wrapper never fitted, a wrapper whose      *)
(* training raised, fitted wrappers, and an object that has a predictor    *)
(* attribute and a feature_importance method.                              *)

NotAPredictor == [kind |-> "object"]
DuckPredictor == [kind |-> "object with predictor and feature_importance"]

PredictorInputs ==
    {None, NotAPredictor, DuckPredictor, AutoGluonWrapper(1, NoKwargs)}
    \cup {fit(AutoGluonWrapper(1, NoKwargs), SeriesOf(TRUE, TRUE, 1), a).self :
             a \in {f \in FitAnswers : f.ctor}}

(* hasattr(predictor, 'predictor') *)
has_predictor(predictor) ==
    predictor.kind = "AutoGluonWrapper" \/ predictor = DuckPredictor

(* hasattr(predictor.predictor, 'leaderboard') *)
has_leaderboard(predictor) ==
    predictor.kind = "AutoGluonWrapper" /\ predictor.predictor # None

(* The library's answer to leaderboard() and to feature_importance(). *)
TableAnswers == {[ok |-> TRUE], [ok |-> FALSE]}

(* The order of the sub-models in a leaderboard. *)
ModelOrder == <<"WeightedEnsemble", "Naive">>

(* predictor.leaderboard(data): a row per sub-model; score_test only when  *)
(* data is given, else score_val.  An untrained predictor raises.          *)
predictor_leaderboard(predictor, with_data, ext) ==
    IF ~predictor.trained \/ ~ext.ok
    THEN Raise(ExternalLibraryFailure("leaderboard"))
    ELSE LET names == SelectNames(ModelOrder, ModelNames \ predictor.models)
         IN  Ok([i \in 1..Len(names) |->
                    [model |-> names[i],
                     score |-> IF with_data THEN "score_test" ELSE "score_val",
                     fit_time |-> i, pred_time_val |-> i]])

----------------------------------------------------------------------------
(* OWAutoGluonLeaderboard *)

Table(rows) == [kind |-> "Table", rows |-> rows]

(* __init__ and the settings' defaults (lines 30-37) *)
OWAutoGluonLeaderboard ==
    [kind |-> "OWAutoGluonLeaderboard", predictor |-> None, test_data |-> None,
     model |-> <<>>, sorting |-> [column |-> 0, order |-> "AscendingOrder"],
     selected_model |-> None, Error |-> {},
     Outputs |-> [selected_model |-> Unsent, evaluation_results |-> Unsent]]

(* update_leaderboard *)
update_leaderboard(self, ext) ==
    LET ag_data == IF self.test_data = None THEN Ok(None)
                   ELSE convert_to_autogluon_format(self.test_data)
        leaderboard == predictor_leaderboard(self.predictor.predictor,
                                             self.test_data # None, ext)
        failed == [self |-> [self EXCEPT !.Error = @ \cup {"evaluation_failed"}],
                   caught |-> TRUE]
    IN  IF self.predictor = None THEN [self |-> self, caught |-> FALSE]
        ELSE IF IsRaise(ag_data) THEN failed
        ELSE IF IsRaise(leaderboard) THEN failed
        ELSE [self |-> [self EXCEPT !.model = leaderboard.value,
                                    !.Outputs.evaluation_results = Table(leaderboard.value)],
              caught |-> FALSE]

(* set_predictor *)
lb_set_predictor(self, predictor, ext) ==
    LET cleared == [self EXCEPT !.Error = {}, !.predictor = predictor]
    IN  IF predictor = None
        THEN [self |-> [cleared EXCEPT !.model = <<>>,
                                       !.Outputs = [selected_model |-> None,
                                                    evaluation_results |-> None]],
              caught |-> FALSE]
        ELSE IF ~has_predictor(predictor) \/ ~has_leaderboard(predictor)
        THEN [self |-> [cleared EXCEPT !.Error = {"invalid_predictor"}, !.predictor = None],
              caught |-> TRUE]
        ELSE update_leaderboard(cleared, ext)

(* set_data *)
lb_set_data(self, data, ext) ==
    LET stored == [self EXCEPT !.test_data = data]
    IN  IF stored.predictor # None THEN update_leaderboard(stored, ext)
        ELSE [self |-> stored, caught |-> FALSE]

(* sort_by_column, called from a click on a header (order is None) *)
sort_by_column(self, column) ==
    [self EXCEPT !.sorting =
        [column |-> column,
         order |-> IF self.sorting.order = "DescendingOrder"
                   THEN "AscendingOrder" ELSE "DescendingOrder"]]

(* selection_changed; row = 0 when no row is selected *)
lb_selection_changed(self, row) ==
    LET model_name == self.model[row].model
        named == [self EXCEPT !.selected_model = [name |-> model_name]]
        selected == get_model(self.predictor, model_name)
    IN  IF row = 0
        THEN [self |-> [self EXCEPT !.Outputs.selected_model = None], caught |-> FALSE]
        ELSE IF self.predictor = None THEN [self |-> named, caught |-> FALSE]
        ELSE IF IsRaise(selected.result)
        THEN [self |-> [named EXCEPT !.Error = @ \cup {"evaluation_failed"},
                                     !.Outputs.selected_model = None],
              caught |-> TRUE]
        ELSE [self |-> [named EXCEPT !.Outputs.selected_model = selected.result.value],
              caught |-> FALSE]

LeaderboardInit ==
    /\ lb = OWAutoGluonLeaderboard
    /\ lb_event = None
    /\ IdleAdapter
    /\ IdleWrapper
    /\ IdleForecast
    /\ IdleImportance

LbEvent(handler, done) ==
    /\ lb' = done.self
    /\ lb_event' = [handler |-> handler, caught |-> done.caught]
    /\ UNCHANGED <<adapterVars, wrapperVars, forecastVars, importanceVars>>

LbSetPredictor(predictor, ext) == LbEvent("set_predictor", lb_set_predictor(lb, predictor, ext))

LbSetData(data, ext) == LbEvent("set_data", lb_set_data(lb, data, ext))

LbSortByColumn(column) ==
    LbEvent("sort_by_column", [self |-> sort_by_column(lb, column), caught |-> FALSE])

LbSelectionChanged(row) == LbEvent("selection_changed", lb_selection_changed(lb, row))

LeaderboardNext ==
    \/ \E predictor \in PredictorInputs, ext \in TableAnswers : LbSetPredictor(predictor, ext)
    \/ \E data \in WrapperSeries \cup {None}, ext \in TableAnswers : LbSetData(data, ext)
    \/ \E column \in 0..3 : LbSortByColumn(column)
    \/ \E row \in 0..Len(lb.model) : LbSelectionChanged(row)

SpecLeaderboard == LeaderboardInit /\ [][LeaderboardNext]_vars

----------------------------------------------------------------------------
(* OWAutoGluonFeatureImportance *)

Methods == {"permutation", "naive"}
NumIterations == {5, 1}
SubsampleSizes == {50, 10}

ImportanceSettings ==
    [method |-> Methods, num_iterations |-> NumIterations, subsample_size |-> SubsampleSizes]

(* __init__ and the settings' defaults (lines 30-41) *)
OWAutoGluonFeatureImportance ==
    [kind |-> "OWAutoGluonFeatureImportance", predictor |-> None, data |-> None,
     importance_data |-> None, method |-> "permutation", num_iterations |-> 5,
     subsample_size |-> 50, Error |-> {},
     Outputs |-> [feature_importance |-> Unsent, selected_features |-> Unsent]]

(* self.predictor.feature_importance(...): AutoGluonWrapper has no such    *)
(* method (AttributeError); another object's method answers or raises.     *)
feature_importance(predictor, settings, ext) ==
    IF predictor.kind = "AutoGluonWrapper" THEN Raise("AttributeError")
    ELSE IF ~ext.ok THEN Raise(ExternalLibraryFailure("feature_importance"))
    ELSE Ok(<<[feature |-> "target", importance |-> settings.num_iterations,
               stddev |-> settings.subsample_size, method |-> settings.method]>>)

(* compute_importance *)
compute_importance(self, ext) ==
    LET cleared == [self EXCEPT !.Error = {}]
        importance == feature_importance(self.predictor,
                          [method |-> self.method, num_iterations |-> self.num_iterations,
                           subsample_size |-> self.subsample_size], ext)
    IN  IF self.predictor = None \/ self.data = None
        THEN [self |-> self, caught |-> FALSE]
        ELSE IF IsRaise(importance)
        THEN [self |-> [cleared EXCEPT !.Error = {"computation_failed"}], caught |-> TRUE]
        ELSE [self |-> [cleared EXCEPT !.importance_data = Table(importance.value),
                                       !.Outputs.feature_importance = Table(importance.value)],
              caught |-> FALSE]

(* set_predictor *)
fi_set_predictor(self, predictor, ext) ==
    LET cleared == [self EXCEPT !.Error = {}, !.predictor = predictor]
    IN  IF predictor = None
        THEN [self |-> [cleared EXCEPT !.importance_data = None,
                                       !.Outputs.feature_importance = None],
              caught |-> FALSE]
        ELSE IF ~has_predictor(predictor)
        THEN [self |-> [cleared EXCEPT !.Error = {"invalid_predictor"}, !.predictor = None],
              caught |-> TRUE]
        ELSE IF cleared.data # None THEN compute_importance(cleared, ext)
        ELSE [self |-> cleared, caught |-> FALSE]

(* set_data *)
fi_set_data(self, data, ext) ==
    LET stored == [self EXCEPT !.data = data]
    IN  IF stored.predictor # None /\ stored.data # None
        THEN compute_importance(stored, ext)
        ELSE [self |-> stored, caught |-> FALSE]

ImportanceInit ==
    /\ fi = OWAutoGluonFeatureImportance
    /\ fi_event = None
    /\ IdleAdapter
    /\ IdleWrapper
    /\ IdleForecast
    /\ IdleLeaderboard

FiEvent(handler, done) ==
    /\ fi' = done.self
    /\ fi_event' = [handler |-> handler, caught |-> done.caught]
    /\ UNCHANGED <<adapterVars, wrapperVars, forecastVars, leaderboardVars>>

FiSetPredictor(predictor, ext) == FiEvent("set_predictor", fi_set_predictor(fi, predictor, ext))

FiSetData(data, ext) == FiEvent("set_data", fi_set_data(fi, data, ext))

(* A control changes a setting and calls its callback, compute_importance *)
FiSettingChanged(name, value, ext) ==
    /\ fi[name] # value
    /\ FiEvent("setting", compute_importance([fi EXCEPT ![name] = value], ext))

(* selection_changed (lines 146-154) sends nothing *)
FiSelectionChanged == FiEvent("selection_changed", [self |-> fi, caught |-> FALSE])

ImportanceNext ==
    \/ \E predictor \in PredictorInputs, ext \in TableAnswers : FiSetPredictor(predictor, ext)
    \/ \E data \in WrapperSeries \cup {None}, ext \in TableAnswers : FiSetData(data, ext)
    \/ \E name \in DOMAIN ImportanceSettings, ext \in TableAnswers :
          \E value \in ImportanceSettings[name] : FiSettingChanged(name, value, ext)
    \/ FiSelectionChanged

SpecImportance == ImportanceInit /\ [][ImportanceNext]_vars

----------------------------------------------------------------------------
(* Claims about the adapter, checked under SpecAdapter *)

(* C3: to_panel fails with MissingTimeAttribute whenever the series has no *)
(* time attribute, whatever its target attribute and rows are, and with    *)
(* MissingTargetAttribute whenever it has a time attribute but no target   *)
(* attribute; in both cases it raises and produces no frame.               *)
C3_MissingAttributeErrors ==
    a_op = "to_panel" =>
        /\ ~a_in.series.time_variable => a_out = Raise(MissingTimeAttribute)
        /\ (a_in.series.time_variable /\ ~a_in.series.class_var)
               => a_out = Raise(MissingTargetAttribute)

(* A series with rows and with neither attribute has been refused for its  *)
(* missing time attribute.                                                 *)
C3_Witness ==
    /\ a_op = "to_panel"
    /\ ~a_in.series.time_variable
    /\ ~a_in.series.class_var
    /\ a_in.series.time_values # <<>>
    /\ a_out = Raise(MissingTimeAttribute)

(* C6: from_panel builds its result from exactly the value columns of the  *)
(* forecast (every column other than item_id and timestamp): one attribute *)
(* per value column, in the forecast's order, and one column of X per      *)
(* attribute holding that column's values.                                 *)
C6_ResultFromValueColumns ==
    (a_op = "from_panel" /\ a_in.series.time_values # <<>>) =>
        LET vc == SelectNames(a_in.forecast.columns, {"item_id", "timestamp"})
        IN  /\ IsOk(a_out)
            /\ a_out.value.attrs = vc
            /\ a_out.value.X = [j \in 1..Len(vc) |-> a_in.forecast.data[vc[j]]]

(* Seconds truncated toward zero, in ticks. *)
TruncatedToSeconds(t) ==
    IF t >= 0 THEN (t \div TicksPerSecond) * TicksPerSecond
    ELSE 0 - (((0 - t) \div TicksPerSecond) * TicksPerSecond)

(* C7: for every series with a time attribute, a target attribute and at   *)
(* least one row, from_panel(to_panel(series), series) is a series of the  *)
(* same rows in the same order: its value column is the original target    *)
(* column and its timestamps are the originals truncated to whole seconds. *)
C7_RoundTrip ==
    (/\ a_op = "round_trip"
     /\ a_in.series.time_variable
     /\ a_in.series.class_var
     /\ a_in.series.time_values # <<>>) =>
        /\ IsOk(a_out)
        /\ Len(a_out.value.time_values) = Len(a_in.series.time_values)
        /\ a_out.value.X = <<a_in.series.Y>>
        /\ a_out.value.time_values =
               [i \in 1..Len(a_in.series.time_values) |->
                   TruncatedToSeconds(a_in.series.time_values[i])]

----------------------------------------------------------------------------
(* Claims about the wrapper, checked under SpecWrapper *)

(* C1: predict and get_fitted_values, called with or without a series on a *)
(* wrapper on which fit has never been called, both fail with NotFitted.   *)
C1_NotFittedBeforeFit ==
    (w_call # None /\ w_call.op \in {"predict", "get_fitted_values"} /\ ~w_fit_called)
        => w_call.result = Raise(NotFitted)

(* C2: when fit fails because the library's training raises, the wrapper   *)
(* holds no predictor afterwards: a following predict fails with NotFitted *)
(* and get_model returns None, for a first fit and for a re-fit alike.     *)
C2_UnfittedAfterFailedTraining ==
    (/\ w_call # None
     /\ w_call.op = "fit"
     /\ w_call.result = Raise(ExternalLibraryFailure("fit"))) =>
        /\ wrapper.predictor = None
        /\ \A ext \in PredictAnswers : predict(wrapper, None, ext).result = Raise(NotFitted)
        /\ \A n \in RequestedNames : get_model(wrapper, n).result = Ok(None)

(* What a call gives its caller and asks of the library. *)
Observed(out) == [result |-> out.result, calls |-> out.calls]

(* C4: after a successful fit(series) and any later calls other than fit,  *)
(* predict() with no argument does what predict(series) does: the same     *)
(* calls into the library and, for each answer of the library, the same    *)
(* result.                                                                 *)
C4_PredictDefaultsToFittedSeries ==
    w_fitted # None =>
        \A ext \in PredictAnswers :
            Observed(predict(wrapper, None, ext)) = Observed(predict(wrapper, w_fitted, ext))

(* predict() has been called after a successful fit and other calls, and   *)
(* has passed the fitted series to the library.                            *)
C4_Witness ==
    /\ w_fitted # None
    /\ w_call.op = "predict"
    /\ w_call.arg = None
    /\ w_call.before.data = w_fitted
    /\ w_call.calls = <<Called("predict", to_panel_frame(w_fitted))>>

(* C8: get_model(name) on a wrapper without predictor returns None and     *)
(* makes no call into the library; on a wrapper with a predictor it makes  *)
(* the library's lookup and gives its outcome: the sub-model for a name of *)
(* the registry, the library's not-found error for any other name.         *)
C8_GetModelPassThrough ==
    (w_call # None /\ w_call.op = "get_model") =>
        LET p == w_call.before.predictor
            n == w_call.arg.name
        IN  /\ p = None => (w_call.result = Ok(None) /\ w_call.calls = <<>>)
            /\ p # None =>
                  /\ w_call.calls = <<Called("get_model", n)>>
                  /\ n \in p.models => w_call.result = Ok([kind |-> "model", name |-> n])
                  /\ n \notin p.models => w_call.result = Raise(ExternalNotFound)
            /\ wrapper = w_call.before

(* A fitted wrapper has been asked for a name its registry does not hold   *)
(* and has raised the library's not-found error.                           *)
C8_Witness ==
    /\ w_call # None
    /\ w_call.op = "get_model"
    /\ w_call.before.predictor # None
    /\ w_call.before.predictor.trained
    /\ w_call.arg.name = "nonexistent"
    /\ w_call.result = Raise(ExternalNotFound)

(* C9: get_fitted_values is predict: in every state of the wrapper and for *)
(* every argument, get_fitted_values(arg) has the outcome of predict(arg). *)
C9_FittedValuesIsPredict ==
    (w_call # None /\ w_call.op = "get_fitted_values") =>
        w_call.result = predict(w_call.before, w_call.arg, w_call.ext).result

(* C12: in every state a wrapper reaches through fit (succeeding, failing *)
(* in conversion, in the constructor or in training), predict,             *)
(* get_fitted_values and get_model, a wrapper that holds a predictor also  *)
(* holds a stored series; hence predict() with no argument never fails     *)
(* with 'No data available for prediction'.                                *)
C12_PredictorImpliesData ==
    /\ wrapper.predictor # None => wrapper.data # None
    /\ \A ext \in PredictAnswers : predict(wrapper, None, ext).result # Raise(NoData)
    /\ (w_call # None /\ w_call.op = "predict") => w_call.result # Raise(NoData)

(* predict() has been called, after a fit whose training raised, on a      *)
(* wrapper that holds the untrained predictor and the series of that fit.  *)
C12_Witness ==
    /\ w_call # None
    /\ w_call.op = "predict"
    /\ w_call.arg = None
    /\ wrapper.predictor # None
    /\ ~wrapper.predictor.trained
    /\ wrapper.data # None
    /\ w_call.calls # <<>>

(* C13: fit(series) with a series that lacks the time attribute or the     *)
(* target attribute raises the adapter's error before changing anything:   *)
(* no call into the library is made, and predictor and stored series are   *)
(* after the call what they were before it, so a fitted wrapper stays      *)
(* fitted on its previous series and predict() still uses that series.     *)
C13_FailedConversionChangesNothing ==
    (/\ w_call # None
     /\ w_call.op = "fit"
     /\ ~(w_call.arg.time_variable /\ w_call.arg.class_var)) =>
        /\ w_call.result = Raise(IF ~w_call.arg.time_variable
                                 THEN MissingTimeAttribute ELSE MissingTargetAttribute)
        /\ w_call.calls = <<>>
        /\ wrapper.predictor = w_call.before.predictor
        /\ wrapper.data = w_call.before.data
        /\ \A ext \in PredictAnswers :
               Observed(predict(wrapper, None, ext))
                   = Observed(predict(w_call.before, None, ext))

(* A wrapper fitted on a series has refused a series without target       *)
(* attribute and is still fitted on the first series.                      *)
C13_Witness ==
    /\ w_call # None
    /\ w_call.op = "fit"
    /\ w_call.arg.time_variable
    /\ ~w_call.arg.class_var
    /\ w_call.result = Raise(MissingTargetAttribute)
    /\ w_call.before.predictor # None
    /\ w_call.before.predictor.trained
    /\ wrapper.predictor.trained
    /\ wrapper.data = w_call.before.data
    /\ wrapper.predictor.train_data = to_panel_frame(wrapper.data)

----------------------------------------------------------------------------
(* Claims about the widgets *)

(* No port of the widget holds a value other than None (a port nothing was *)
(* ever sent on holds none).                                               *)
PortsCleared(widget) ==
    \A port \in DOMAIN widget.Outputs : widget.Outputs[port] \in {None, Unsent}

(* C5: in each presentation widget, whenever a handler catches a failure   *)
(* (invalid input, invalid predictor, an exception of the wrapper or the   *)
(* library), the last value sent on every output port of that widget when  *)
(* the handler returns is None: no port keeps an earlier result.           *)
C5_FailureClearsEveryPort ==
    /\ (fw_event # None /\ fw_event.caught) => PortsCleared(fw)
    /\ (lb_event # None /\ lb_event.caught) => PortsCleared(lb)
    /\ (fi_event # None /\ fi_event.caught) => PortsCleared(fi)

(* The wrapper w was fitted on the data the forecast widget holds now,     *)
(* with the settings it has now.                                           *)
FittedOnCurrent(w) ==
    /\ w.kind = "AutoGluonWrapper"
    /\ w.predictor # None
    /\ w.predictor.trained
    /\ fw.data # None
    /\ w.data = fw.data
    /\ w.predictor.train_data = to_panel_frame(fw.data)
    /\ w.prediction_length = fw.prediction_length
    /\ w.kwargs = wrapper_kwargs(fw)

(* w is a wrapper that has been fitted. *)
IsFitted(w) ==
    /\ w.kind = "AutoGluonWrapper"
    /\ w.predictor # None
    /\ w.predictor.trained

(* C10: in the forecast widget, after any sequence of set_data and setting *)
(* changes, a fitted wrapper that the widget holds, or that was last sent  *)
(* on the Predictor port, is fitted on the widget's current data with its  *)
(* current settings: a wrapper fitted on earlier data or earlier settings  *)
(* is never still held or still on the port.                               *)
C10_NoStalePredictor ==
    fw_event # None =>
        /\ IsFitted(fw.predictor) => FittedOnCurrent(fw.predictor)
        /\ IsFitted(fw.Outputs.predictor) => FittedOnCurrent(fw.Outputs.predictor)

(* C11: in the forecast widget, when set_data receives data that has no    *)
(* time variable, or has a time variable but no target, the corresponding  *)
(* message (no_time_variable or no_target) is active when set_data         *)
(* returns: the apply that set_data itself calls does not clear it.        *)
C11_InputErrorStaysActive ==
    (fw_event # None /\ fw_event.handler = "set_data" /\ fw_event.arg # None) =>
        /\ ~fw_event.arg.time_variable => "no_time_variable" \in fw.Error
        /\ (fw_event.arg.time_variable /\ ~fw_event.arg.class_var) => "no_target" \in fw.Error

=============================================================================
